---- MODULE Spec2Model ----
(***************************************************************************)
(* Model of the consent engine of src/assets/consent.js (CookieConsent).   *)
(*                                                                         *)
(* One behaviour is a sequence of page sessions of one browser profile.    *)
(* The two storage backends (the localStorage entry and the cookie stored  *)
(* under STORAGE_KEY) outlive a session; everything else is rebuilt when   *)
(* the page is loaded again.  Every handler of the script runs to          *)
(* completion (the host is single-threaded), so every handler is one       *)
(* action.                                                                 *)
(*                                                                         *)
(* Environment of Spec: an ordinary document (tuple origin).  localStorage *)
(* may throw on read or on write (the code wraps both in try/catch); a     *)
(* write to document.cookie is either stored or silently dropped by the    *)
(* browser and reading document.cookie does not throw.  Which of these     *)
(* happens is a setting of the browser profile (siteData) that holds for a *)
(* session.  SpecSandboxed adds the documents with an opaque origin, where *)
(* document.cookie itself throws.                                          *)
(***************************************************************************)
EXTENDS Integers, Sequences, FiniteSets, TLC

(* ------------------------------------------------------------------ *)
(* Bounds of the model                                                 *)
(* ------------------------------------------------------------------ *)

\* Page loads (sessions) in one behaviour.
MaxSessions == 2

\* Calls of init, applyConsent and reset in one behaviour.
MaxOps == 3

\* Preferences modals open at the same time.
MaxModals == 1

\* Inert declarations (<script type="text/plain" data-cookie-category=..>)
\* in the page.
NumDecls == 3

\* Deployments of a bumped CONSENT_VERSION during one behaviour.
MaxBumps == 1

(* ------------------------------------------------------------------ *)
(* Values                                                              *)
(* ------------------------------------------------------------------ *)

\* consent.js:41  const CONSENT_VERSION = '2'
CompiledVersion == 2

\* consent.js:78  let consent = null.  A record (prefs object) is a function
\* from category keys to BOOLEAN; Null is told apart from every record,
\* the empty one included, by its domain.
Null == [k \in {"<null>"} |-> FALSE]

\* Category keys that occur: the four built-in ones (consent.js:44-69) and
\* one key that only configuration can register.
BuiltinKeys == {"necessary", "analytics", "marketing", "preferences"}

Keys == BuiltinKeys \cup {"custom"}

\* Object.keys / Object.entries enumerate in insertion order: the built-in
\* keys in source order, then keys merged in by init.
KeyOrder == <<"necessary", "analytics", "marketing", "preferences", "custom">>

\* !!(obj && obj[key]) : a key the object lacks reads as undefined.
Truthy(obj, key) == obj /= Null /\ key \in DOMAIN obj /\ obj[key]

(* ------------------------------------------------------------------ *)
(* Category registry and cookie map                                    *)
(* ------------------------------------------------------------------ *)

\* consent.js:44-69  the built-in CATEGORIES; label and description are
\* presentation only and are left out of a definition.
BuiltinCategories ==
  [k \in BuiltinKeys |->
     [required |-> (k = "necessary"), default |-> (k = "necessary")]]

\* consent.js:72-76  the built-in COOKIE_MAP.
BuiltinCookieMap ==
  [k \in {"analytics", "marketing", "preferences"} |->
     CASE k = "analytics" ->
            <<"_ga", "_gid", "_gat", "_gat_gtag", "__hstc", "hubspotutk",
              "_hjid", "_hjSessionUser">>
       [] k = "marketing" -> <<"_fbp", "_fbc", "fr", "tr", "__gads">>
       [] k = "preferences" -> <<"lang", "theme", "currency">>]

\* The object with no own keys.
EmptyObject == [k \in {} |-> FALSE]

\* The options objects init is called with: none; one that registers a new
\* required category; one that makes a built-in category required, replaces
\* the cookie names of another and names the cookies of a key it does not
\* register.
NoOptions == [categories |-> EmptyObject, cookieMap |-> EmptyObject]

CustomOptions ==
  [categories |-> [custom |-> [required |-> TRUE, default |-> FALSE],
                   preferences |-> [required |-> FALSE, default |-> TRUE]],
   cookieMap |-> EmptyObject]

StrictOptions ==
  [categories |-> [analytics |-> [required |-> TRUE, default |-> FALSE]],
   cookieMap |-> [marketing |-> <<"a", "b">>, custom |-> <<"c1">>]]

Options == {NoOptions, CustomOptions, StrictOptions}

\* Object.assign(target, source): source wins on a key both have.
ObjectAssign(target, source) ==
  [k \in (DOMAIN target) \cup (DOMAIN source) |->
     IF k \in DOMAIN source THEN source[k] ELSE target[k]]

\* Keys of an object in enumeration order.
RECURSIVE OrderedFrom(_, _)
OrderedFrom(obj, i) ==
  IF i > Len(KeyOrder) THEN <<>>
  ELSE IF KeyOrder[i] \in DOMAIN obj
       THEN <<KeyOrder[i]>> \o OrderedFrom(obj, i + 1)
       ELSE OrderedFrom(obj, i + 1)

ObjectKeys(obj) == OrderedFrom(obj, 1)

(* ------------------------------------------------------------------ *)
(* Persistence                                                         *)
(* ------------------------------------------------------------------ *)

\* What a backend holds under STORAGE_KEY: nothing, a string that is the
\* JSON text of a payload, or a string JSON.parse rejects.
NoEntry == [kind |-> "none"]

Garbage == [kind |-> "garbage"]

\* JSON.stringify({version, prefs, ts}) (consent.js:82).  ts is written and
\* never read back by any code path; it is not part of the text here.
JSONstringify(version, prefs) ==
  [kind |-> "json", version |-> version, prefs |-> prefs]

\* encodeURIComponent(payload), the value part of the cookie (consent.js:87).
encodeURIComponent(text) == [kind |-> "uri", of |-> text]

\* decodeURIComponent(m[1]) (consent.js:102); a value that is not an encoded
\* text decodes to something JSON.parse rejects.
decodeURIComponent(value) ==
  IF value.kind = "uri" THEN value.of ELSE Garbage

\* A load body without the version test: any parseable payload is a record.
ParsedPrefsAnyVersion(text, version) ==
  IF text.kind = "json" THEN text.prefs ELSE Null

\* The body of both try blocks of load: JSON.parse, then the version test.
\* Null stands for "fell through" (parse threw, or the version differs).
ParsedPrefs(text, version) ==
  IF text.kind = "json" /\ text.version = version THEN text.prefs ELSE Null

\* What the browser lets the page do with its two backends:
\*   "ok"       both work;
\*   "quota"    localStorage reads work, setItem throws (quota exceeded);
\*   "blocked"  every localStorage access throws, cookies work;
\*   "none"     every localStorage access throws, cookie writes are dropped
\*              and document.cookie reads as empty.
SiteDataModes == {"ok", "quota", "blocked", "none"}

\* A document with an opaque origin (a sandboxed frame without
\* allow-same-origin, a data: URL): every access to localStorage and every
\* read of and assignment to document.cookie throws a SecurityError.
SandboxedModes == SiteDataModes \cup {"opaque"}

getItemThrows(mode) == mode \in {"blocked", "none", "opaque"}

setItemThrows(mode) == mode \in {"quota", "blocked", "none", "opaque"}

cookiesOff(mode) == mode = "none"

\* document.cookie throws: the assignments of consent.js:87, 130 and 392 and
\* the read of consent.js:99, none of which is inside a try block.
cookieThrows(mode) == mode = "opaque"

\* A load that consults the cookie before localStorage.
loadCookieFirst(ls, ck, version, mode) ==
  LET fromPrimary ==
        IF getItemThrows(mode) \/ ls = NoEntry THEN Null
        ELSE ParsedPrefs(ls, version)
      fromCookie ==
        IF cookiesOff(mode) \/ ck = NoEntry THEN Null
        ELSE ParsedPrefs(decodeURIComponent(ck), version)
  IN  IF fromCookie /= Null THEN fromCookie ELSE fromPrimary

\* consent.js:91-107  load() under the given mode.
load(ls, ck, version, mode) ==
  LET fromPrimary ==
        IF getItemThrows(mode) \/ ls = NoEntry THEN Null
        ELSE ParsedPrefs(ls, version)
      fromCookie ==
        IF cookiesOff(mode) \/ ck = NoEntry THEN Null
        ELSE ParsedPrefs(decodeURIComponent(ck), version)
  IN  IF fromPrimary /= Null THEN fromPrimary ELSE fromCookie

\* How a call of save ends: setItem stored the payload; setItem threw and
\* the cookie was stored; setItem threw and the browser dropped the cookie.
SaveOutcome(mode) ==
  IF ~setItemThrows(mode) THEN "primary"
  ELSE IF ~cookiesOff(mode) THEN "fallback" ELSE "lost"

\* consent.js:81-89  save(prefs): the new contents of the two backends.
save(prefs, ls, ck, version, outcome) ==
  LET payload == JSONstringify(version, prefs)
  IN  CASE outcome = "primary" -> [ls |-> payload, ck |-> ck]
        [] outcome = "fallback" -> [ls |-> ls, ck |-> encodeURIComponent(payload)]
        [] outcome = "lost" -> [ls |-> ls, ck |-> ck]

(* ------------------------------------------------------------------ *)
(* State                                                               *)
(* ------------------------------------------------------------------ *)

VARIABLES
  consent,        \* consent.js:78  the current record, or Null
  CATEGORIES,     \* consent.js:44  the registry, as merged by init
  COOKIE_MAP,     \* consent.js:72  the cookie map, as merged by init
  CONSENT_VERSION,\* consent.js:41  the version compiled into the deployed script
  localStorage,   \* the primary backend's entry under STORAGE_KEY
  cookie,         \* the fallback backend's entry under STORAGE_KEY
  siteData,       \* what the browser lets the page do with the backends
  scripts,        \* per declaration: "absent" (not parsed yet), "inert", "active"
  made,           \* per declaration: active <script> elements created from it
  readyState,     \* document.readyState: "loading" or "complete"
  listeners,      \* DOMContentLoaded listeners registered by init (show)
  banners,        \* #cc-banner elements in the document
  modals,         \* the open preferences modals, oldest first
  session,        \* number of the page load
  inited,         \* the script's own call of init has run in this session
  nops,           \* calls of init, applyConsent and reset so far
  installs,       \* records made current in this session: by applyConsent
                  \* (.applied) and by init from storage (.loaded), and the
                  \* keys true in any of them (.granted) (history)
  ended,          \* how the previous session ended (history)
  bumps,          \* deployments of a new CONSENT_VERSION so far
  last            \* what the last call of init, applyConsent or reset did
                  \* (history)

vars ==
  <<consent, CATEGORIES, COOKIE_MAP, CONSENT_VERSION, localStorage, cookie,
    siteData, scripts, made, readyState, listeners, banners, modals, session, inited,
    nops, installs, ended, bumps, last>>

(* ------------------------------------------------------------------ *)
(* The page: inert declarations                                        *)
(* ------------------------------------------------------------------ *)

Decls == 1 .. NumDecls

\* The data-cookie-category attribute of the page's declarations, in
\* document order.
PageTags ==
  <<"necessary", "analytics", "custom", "marketing", "analytics", "preferences">>

DeclCategory(d) == PageTags[((d - 1) % Len(PageTags)) + 1]

\* A selector without the type="text/plain" test: every parsed declaration
\* carrying the tag, converted or not.
SelectDeclared(scr, category) ==
  {d \in Decls : scr[d] /= "absent" /\ DeclCategory(d) = category}

\* consent.js:111-113  querySelectorAll(script[type="text/plain"]
\* [data-cookie-category=category]): the declarations in the document that
\* are still inert and carry the tag.
SelectInert(scr, category) ==
  {d \in Decls : scr[d] = "inert" /\ DeclCategory(d) = category}

\* An activation that converts every inert declaration, whatever its tag.
activateEverything(dom, category) ==
  [scripts |-> [d \in Decls |->
                  IF dom.scripts[d] = "inert" THEN "active" ELSE dom.scripts[d]],
   made |-> [d \in Decls |->
               IF dom.scripts[d] = "inert" THEN dom.made[d] + 1 ELSE dom.made[d]]]

\* consent.js:110-124  activateScripts(category) on dom = [scripts, made]:
\* every selected declaration is replaced by an active <script>.
activateScripts(dom, category) ==
  LET sel == SelectInert(dom.scripts, category)
  IN  [scripts |-> [d \in Decls |-> IF d \in sel THEN "active" ELSE dom.scripts[d]],
       made |-> [d \in Decls |-> IF d \in sel THEN dom.made[d] + 1 ELSE dom.made[d]]]

\* Object.entries(prefs).forEach(([cat, allowed]) => { if (allowed)
\* activateScripts(cat) })  (consent.js:144-146 and 365-367), from the i-th
\* entry on.
RECURSIVE ActivateAllowedFrom(_, _, _, _)
ActivateAllowedFrom(dom, prefs, keys, i) ==
  IF i > Len(keys) THEN dom
  ELSE ActivateAllowedFrom(
         IF prefs[keys[i]] THEN activateScripts(dom, keys[i]) ELSE dom,
         prefs, keys, i + 1)

\* An activation that makes the document follow the record: a parsed
\* declaration is active exactly when its category is true in prefs.
SyncWithRecord(dom, prefs) ==
  [scripts |-> [d \in Decls |->
                  IF dom.scripts[d] = "absent" THEN "absent"
                  ELSE IF Truthy(prefs, DeclCategory(d)) THEN "active"
                  ELSE "inert"],
   made |-> [d \in Decls |->
               IF dom.scripts[d] = "inert" /\ Truthy(prefs, DeclCategory(d))
               THEN dom.made[d] + 1 ELSE dom.made[d]]]

\* An activation loop without the test of the entry's value.
ActivateEveryEntry(dom, prefs) ==
  ActivateAllowedFrom(dom, [k \in DOMAIN prefs |-> TRUE], ObjectKeys(prefs), 1)

ActivateAllowed(dom, prefs) ==
  ActivateAllowedFrom(dom, prefs, ObjectKeys(prefs), 1)

(* ------------------------------------------------------------------ *)
(* Cookie cleanup                                                      *)
(* ------------------------------------------------------------------ *)

\* consent.js:129  the three scope variants of one deletion: path=/ alone,
\* with domain=<hostname>, with domain=.<hostname>.
Tails == <<"path=/", "path=/;domain=host", "path=/;domain=.host">>

\* consent.js:127-133  deleteCookies(category): the expiring assignments
\* to document.cookie, in order, as <<name, tail>>.
RECURSIVE DeleteNamesFrom(_, _)
DeleteNamesFrom(names, i) ==
  IF i > Len(names) THEN <<>>
  ELSE [t \in 1 .. Len(Tails) |-> <<names[i], Tails[t]>>]
         \o DeleteNamesFrom(names, i + 1)

\* A cleanup that expires each name at the root path only.
deleteCookiesRootOnly(map, category) ==
  LET names == IF category \in DOMAIN map THEN map[category] ELSE <<>>
  IN  [i \in 1 .. Len(names) |-> <<names[i], Tails[1]>>]

deleteCookies(map, category) ==
  DeleteNamesFrom(IF category \in DOMAIN map THEN map[category] ELSE <<>>, 1)

\* consent.js:138-142  the revocation loop of applyConsent over
\* Object.keys(CATEGORIES), from the i-th key on.
RECURSIVE RevokeFrom(_, _, _, _, _)
RevokeFrom(old, prefs, map, keys, i) ==
  IF i > Len(keys) THEN <<>>
  ELSE (IF Truthy(old, keys[i]) /\ ~Truthy(prefs, keys[i])
        THEN deleteCookies(map, keys[i]) ELSE <<>>)
         \o RevokeFrom(old, prefs, map, keys, i + 1)

\* A revocation loop that takes the absence of a current record for a
\* record with every category true.
RevokeAlways(old, prefs, cats, map) ==
  RevokeFrom(IF old /= Null THEN old ELSE [k \in DOMAIN cats |-> TRUE],
             prefs, map, ObjectKeys(cats), 1)

\* A revocation loop over the keys of the old record instead of the
\* registry's.
RevokeOldKeys(old, prefs, cats, map) ==
  IF old /= Null THEN RevokeFrom(old, prefs, map, ObjectKeys(old), 1) ELSE <<>>

Revoke(old, prefs, cats, map) ==
  IF old /= Null THEN RevokeFrom(old, prefs, map, ObjectKeys(cats), 1) ELSE <<>>

(* ------------------------------------------------------------------ *)
(* Records                                                             *)
(* ------------------------------------------------------------------ *)

\* A default record without the test of required.
defaultsOnly(cats) == [k \in DOMAIN cats |-> cats[k].default]

\* consent.js:151-155  defaultPrefs()
defaultPrefs(cats) ==
  [k \in DOMAIN cats |-> IF cats[k].required THEN TRUE ELSE cats[k].default]

\* consent.js:158  the record acceptAll applies
allTrue(cats) == [k \in DOMAIN cats |-> TRUE]

\* A query that answers from the registry as well as from the record.
hasConsentOrRequired(category) ==
  \/ Truthy(consent, category)
  \/ category \in DOMAIN CATEGORIES /\ CATEGORIES[category].required

\* The keys a record holds true.
TrueKeys(prefs) == {k \in DOMAIN prefs : prefs[k]}

\* consent.js:379-381  hasConsent(category)
hasConsent(category) == Truthy(consent, category)

(* ------------------------------------------------------------------ *)
(* Initial states                                                      *)
(* ------------------------------------------------------------------ *)

\* A record an earlier visit may have left in a backend, saved while the
\* page registered the category custom.
PriorPrefs ==
  [k \in Keys |-> (k \in {"necessary", "marketing", "custom"})]

\* What a backend may hold when the first session starts: nothing, an
\* unparseable value, or a payload of the previous or of the compiled
\* version.
PriorTexts ==
  {NoEntry, Garbage,
   JSONstringify(CompiledVersion - 1, PriorPrefs),
   JSONstringify(CompiledVersion, PriorPrefs)}

PriorCookies ==
  {NoEntry, Garbage,
   encodeURIComponent(JSONstringify(CompiledVersion - 1, PriorPrefs)),
   encodeURIComponent(JSONstringify(CompiledVersion, PriorPrefs))}

\* The history record of a handler, before it has done anything: the record
\* it applied, the current record it found, what load returned to it, the
\* declarations that were inert, those it converted, the cookie deletions
\* and the cc:consent events it issued, what it did about the banner, how
\* its save ended, the two backends as it found them, the record it was
\* called with, whether it ended by an exception reaching its caller, and,
\* for a call made from a cc:consent listener, the call of applyConsent that
\* dispatched the event.
Nothing(op) ==
  [op |-> op, prefs |-> Null, old |-> consent, loaded |-> Null,
   inert |-> {d \in Decls : scripts[d] = "inert"}, converted |-> {},
   purged |-> <<>>, events |-> <<>>, prompt |-> "none", outcome |-> "-",
   ls0 |-> localStorage, ck0 |-> cookie, arg |-> Null, raised |-> FALSE,
   outer |-> Null]

\* No session came before, or the last call before the page was left was not
\* one of applyConsent.  by is that last call, mode the browser setting it
\* ran under.
NotApplied == [applied |-> FALSE, by |-> "script", mode |-> "ok"]

\* The script has been evaluated up to its last line (consent.js:39-396):
\* module state as declared, nothing parsed below the script yet.
Fresh ==
  /\ consent = Null
  /\ CATEGORIES = BuiltinCategories
  /\ COOKIE_MAP = BuiltinCookieMap
  /\ scripts = [d \in Decls |-> "absent"]
  /\ made = [d \in Decls |-> 0]
  /\ readyState = "loading"
  /\ listeners = 0
  /\ banners = 0
  /\ modals = <<>>
  /\ inited = FALSE
  /\ installs = [applied |-> 0, loaded |-> 0, granted |-> {}]
  /\ last = [op |-> "script", prefs |-> Null, old |-> Null, loaded |-> Null,
             inert |-> {}, converted |-> {}, purged |-> <<>>, events |-> <<>>,
             prompt |-> "none", outcome |-> "-", ls0 |-> NoEntry,
             ck0 |-> NoEntry, arg |-> Null, raised |-> FALSE,
             outer |-> Null]

FirstLoad(modes) ==
  /\ Fresh
  /\ CONSENT_VERSION = CompiledVersion
  /\ localStorage \in PriorTexts
  /\ cookie \in PriorCookies
  /\ siteData \in modes
  /\ session = 1
  /\ nops = 0
  /\ ended = NotApplied
  /\ bumps = 0

\* The first page load, in an ordinary document.
Init == FirstLoad(SiteDataModes)

\* The first page load, in an ordinary or in a sandboxed document.
InitSandboxed == FirstLoad(SandboxedModes)

(* ------------------------------------------------------------------ *)
(* The host document                                                   *)
(* ------------------------------------------------------------------ *)

\* reset has called location.reload(): the document is being replaced and
\* runs nothing more.
Leaving == last.op = "reset" /\ ~last.raised

\* The parser reaches the declarations of the page: above the script when
\* this happens before its init, below it otherwise.
Parse ==
  /\ ~Leaving
  /\ readyState = "loading"
  /\ \E d \in Decls : scripts[d] = "absent"
  /\ scripts' = [d \in Decls |-> "inert"]
  /\ UNCHANGED <<consent, CATEGORIES, COOKIE_MAP, CONSENT_VERSION,
                 localStorage, cookie, siteData, made, readyState, listeners,
                 banners, modals, session, inited, nops, installs, ended,
                 bumps, last>>

\* consent.js:371-373  the document finishes loading: every registered show
\* listener runs createBanner (consent.js:268-297).
DOMContentLoaded ==
  /\ ~Leaving
  /\ readyState = "loading"
  /\ \A d \in Decls : scripts[d] /= "absent"
  /\ readyState' = "complete"
  /\ banners' = banners + listeners
  /\ listeners' = 0
  /\ UNCHANGED <<consent, CATEGORIES, COOKIE_MAP, CONSENT_VERSION,
                 localStorage, cookie, siteData, scripts, made, modals,
                 session, inited, nops, installs, ended, bumps, last>>

\* The page is loaded again (by the user, or by reset's location.reload()),
\* possibly from a deployment whose CONSENT_VERSION was bumped and under
\* changed browser settings.
PageLoad(modes) ==
  /\ inited
  /\ session < MaxSessions
  /\ nops < MaxOps
  /\ session' = session + 1
  /\ siteData' \in modes
  /\ \E bump \in BOOLEAN :
       /\ bump => bumps < MaxBumps
       /\ bumps' = IF bump THEN bumps + 1 ELSE bumps
       /\ CONSENT_VERSION' = IF bump THEN CONSENT_VERSION + 1 ELSE CONSENT_VERSION
  /\ consent' = Null
  /\ CATEGORIES' = BuiltinCategories
  /\ COOKIE_MAP' = BuiltinCookieMap
  /\ scripts' = [d \in Decls |-> "absent"]
  /\ made' = [d \in Decls |-> 0]
  /\ readyState' = "loading"
  /\ listeners' = 0
  /\ banners' = 0
  /\ modals' = <<>>
  /\ inited' = FALSE
  /\ installs' = [applied |-> 0, loaded |-> 0, granted |-> {}]
  /\ ended' = IF last.prefs /= Null
              THEN [applied |-> TRUE, by |-> last.op, mode |-> siteData,
                    prefs |-> last.prefs,
                    version |-> CONSENT_VERSION, outcome |-> last.outcome]
              ELSE [NotApplied EXCEPT !.by = last.op, !.mode = siteData]
  /\ last' = [op |-> "script", prefs |-> Null, old |-> Null, loaded |-> Null,
              inert |-> {}, converted |-> {}, purged |-> <<>>, events |-> <<>>,
              prompt |-> "none", outcome |-> "-", ls0 |-> NoEntry,
              ck0 |-> NoEntry, arg |-> Null, raised |-> FALSE,
             outer |-> Null]
  /\ UNCHANGED <<localStorage, cookie, nops>>

\* The next page load is an ordinary document.
Reload == PageLoad(SiteDataModes)

\* The next page load is a sandboxed document.
LoadSandboxed == PageLoad({"opaque"})

(* ------------------------------------------------------------------ *)
(* init                                                                *)
(* ------------------------------------------------------------------ *)

\* consent.js:357-376  init(options), called by the handler named op.  When
\* load's read of document.cookie (consent.js:99) throws, init ends there,
\* after the two merges.
init(op, options) ==
  LET cats == ObjectAssign(CATEGORIES, options.categories)
      map == ObjectAssign(COOKIE_MAP, options.cookieMap)
      raised == cookieThrows(siteData)
      stored == IF raised THEN Null
                ELSE load(localStorage, cookie, CONSENT_VERSION, siteData)
      dom == [scripts |-> scripts, made |-> made]
      after == IF raised THEN dom
               ELSE IF stored /= Null THEN ActivateAllowed(dom, stored)
               ELSE activateScripts(dom, "necessary")
      prompt == IF raised \/ stored /= Null THEN "none"
                ELSE IF readyState = "loading" THEN "deferred" ELSE "shown"
  IN  /\ CATEGORIES' = cats
      /\ COOKIE_MAP' = map
      /\ consent' = IF stored /= Null THEN stored ELSE consent
      /\ scripts' = after.scripts
      /\ made' = after.made
      /\ listeners' = IF prompt = "deferred" THEN listeners + 1 ELSE listeners
      /\ banners' = IF prompt = "shown" THEN banners + 1 ELSE banners
      /\ inited' = TRUE
      /\ nops' = nops + 1
      /\ installs' = IF stored /= Null
                     THEN [installs EXCEPT !.loaded = @ + 1,
                                           !.granted = @ \cup TrueKeys(stored)]
                     ELSE installs
      /\ last' = [Nothing(op) EXCEPT
                    !.loaded = stored,
                    !.converted = {d \in Decls : after.made[d] > made[d]},
                    !.prompt = prompt,
                    !.raised = raised]
      /\ UNCHANGED <<CONSENT_VERSION, localStorage, cookie, siteData,
                     readyState, modals, session, ended, bumps>>

\* consent.js:399  CookieConsent.init() as the script's last statement.
AutoInit ==
  /\ ~inited /\ ~Leaving
  /\ nops < MaxOps
  /\ init("autoinit", NoOptions)

\* The page calls CookieConsent.init(options) later in the session.
ManualInit ==
  /\ inited /\ ~Leaving
  /\ nops < MaxOps
  /\ \E options \in Options : init("init", options)

(* ------------------------------------------------------------------ *)
(* applyConsent and its callers                                        *)
(* ------------------------------------------------------------------ *)

\* An applyConsent that dispatches nothing.
dispatchNothing(events, detail) == events

\* consent.js:148  document.dispatchEvent(new CustomEvent('cc:consent',
\* {detail})): the events dispatched so far and this one.
dispatchEvent(events, detail) == Append(events, detail)

\* Where a call of applyConsent(prefs) that finds old as the current record
\* ends by an exception, if it does: "purge" at the first assignment of
\* deleteCookies (consent.js:130), "save" at the cookie assignment in save's
\* catch block (consent.js:87).
RaisedIn(old, prefs) ==
  IF ~cookieThrows(siteData) THEN "nowhere"
  ELSE IF Revoke(old, prefs, CATEGORIES, COOKIE_MAP) /= <<>> THEN "purge"
  ELSE "save"

\* What applyConsent reads and writes: the current record, the declarations,
\* the two backends.
Engine ==
  [consent |-> consent, scripts |-> scripts, made |-> made,
   ls |-> localStorage, ck |-> cookie]

\* consent.js:137-147  applyConsent(prefs) up to its call of dispatchEvent,
\* started in the engine state st: the state it leaves, the deletions it
\* issued, the declarations it converted, how its save ended and where an
\* exception ended the call.
applyBody(st, prefs) ==
  LET raisedIn == RaisedIn(st.consent, prefs)
      outcome == IF raisedIn = "nowhere" THEN SaveOutcome(siteData) ELSE "raised"
      deletions == Revoke(st.consent, prefs, CATEGORIES, COOKIE_MAP)
      dom == [scripts |-> st.scripts, made |-> st.made]
      after == IF raisedIn = "purge" THEN dom ELSE ActivateAllowed(dom, prefs)
      stored == IF raisedIn = "nowhere"
                THEN save(prefs, st.ls, st.ck, CONSENT_VERSION, outcome)
                ELSE [ls |-> st.ls, ck |-> st.ck]
  IN  [consent |-> IF raisedIn = "purge" THEN st.consent ELSE prefs,
       scripts |-> after.scripts,
       made |-> after.made,
       ls |-> stored.ls,
       ck |-> stored.ck,
       purged |-> IF raisedIn = "purge" THEN <<deletions[1]>> ELSE deletions,
       converted |-> {d \in Decls : after.made[d] > st.made[d]},
       outcome |-> outcome,
       raisedIn |-> raisedIn]

\* consent.js:136-149  applyConsent(prefs), called by the handler named op.
applyConsent(op, prefs) ==
  LET r == applyBody(Engine, prefs)
  IN  /\ consent' = r.consent
      /\ scripts' = r.scripts
      /\ made' = r.made
      /\ localStorage' = r.ls
      /\ cookie' = r.ck
      /\ nops' = nops + 1
      /\ installs' = IF r.raisedIn = "purge" THEN installs
                     ELSE [installs EXCEPT !.applied = @ + 1,
                                           !.granted = @ \cup TrueKeys(prefs)]
      /\ last' = [Nothing(op) EXCEPT
                    !.prefs = IF r.raisedIn = "purge" THEN Null ELSE prefs,
                    !.converted = r.converted,
                    !.purged = r.purged,
                    !.events = IF r.raisedIn = "nowhere"
                               THEN dispatchEvent(<<>>, prefs) ELSE <<>>,
                    !.outcome = r.outcome,
                    !.arg = prefs,
                    !.raised = (r.raisedIn /= "nowhere")]
      /\ UNCHANGED <<CATEGORIES, COOKIE_MAP, CONSENT_VERSION, siteData,
                     readyState, listeners, session, inited, ended, bumps>>

\* consent.js:157-159  acceptAll()
acceptAll(op) == applyConsent(op, allTrue(CATEGORIES))

\* consent.js:161-163  rejectAll()
rejectAll(op) == applyConsent(op, defaultPrefs(CATEGORIES))

\* The user can act on the page: it has loaded, the script has run and the
\* budget of calls is not used up.
CanApply ==
  inited /\ ~Leaving /\ readyState = "complete" /\ nops < MaxOps

\* The banner can be clicked: there is one and no modal overlay covers it.
BannerUp == banners > 0 /\ modals = <<>>

\* consent.js:289-292  dismiss(), the statement after acceptAll() or
\* rejectAll() in the banner's handlers: not reached when the call raised.
dismissAfterApply ==
  /\ banners' = IF cookieThrows(siteData) THEN banners ELSE banners - 1
  /\ UNCHANGED modals

\* consent.js:294  #cc-accept-all: acceptAll(); dismiss()
BannerAccept ==
  /\ CanApply /\ BannerUp
  /\ acceptAll("acceptAll")
  /\ dismissAfterApply

\* consent.js:295  #cc-reject-all: rejectAll(); dismiss()
BannerReject ==
  /\ CanApply /\ BannerUp
  /\ rejectAll("rejectAll")
  /\ dismissAfterApply

\* consent.js:300-336  openModal(onClose): one checkbox per registry key,
\* checked when the category is required or true in the current record (or
\* in defaultPrefs() while there is none), disabled when required.
openModal(dismiss) ==
  LET current == IF consent /= Null THEN consent ELSE defaultPrefs(CATEGORIES)
  IN  [inputs |->
         [k \in DOMAIN CATEGORIES |->
            [checked |-> (CATEGORIES[k].required \/ Truthy(current, k)),
             disabled |-> CATEGORIES[k].required]],
       dismiss |-> dismiss]

\* consent.js:296  #cc-manage: openModal(dismiss)
BannerManage ==
  /\ CanApply /\ BannerUp
  /\ Len(modals) < MaxModals
  /\ modals' = Append(modals, openModal(TRUE))
  /\ UNCHANGED <<consent, CATEGORIES, COOKIE_MAP, CONSENT_VERSION,
                 localStorage, cookie, siteData, scripts, made, readyState,
                 listeners, banners, session, inited, nops, installs, ended,
                 bumps, last>>

\* consent.js:384-386  openPreferences(): openModal(null)
openPreferences ==
  /\ CanApply
  /\ Len(modals) < MaxModals
  /\ modals' = Append(modals, openModal(FALSE))
  /\ UNCHANGED <<consent, CATEGORIES, COOKIE_MAP, CONSENT_VERSION,
                 localStorage, cookie, siteData, scripts, made, readyState,
                 listeners, banners, session, inited, nops, installs, ended,
                 bumps, last>>

\* The sequence without its i-th element.
RemoveAt(seq, i) ==
  [j \in 1 .. (Len(seq) - 1) |-> IF j < i THEN seq[j] ELSE seq[j + 1]]

\* consent.js:338  close(): overlay.remove(); if (onClose) onClose(), where
\* onClose is the banner's dismiss (consent.js:289-292).
close(i) ==
  /\ modals' = RemoveAt(modals, i)
  /\ banners' = IF modals[i].dismiss /\ banners > 0 THEN banners - 1 ELSE banners

\* close() as the statement after applyConsent, acceptAll() or rejectAll()
\* in the modal's handlers: not reached when the call raised.
closeAfterApply(i) ==
  IF cookieThrows(siteData) THEN UNCHANGED <<modals, banners>> ELSE close(i)

\* What the user can have made of the checkboxes of a modal: a disabled
\* input keeps the state it was rendered with.
Checked(m) ==
  {c \in [DOMAIN m.inputs -> BOOLEAN] :
     \A k \in DOMAIN m.inputs : m.inputs[k].disabled => c[k] = m.inputs[k].checked}

\* consent.js:342-349  #cc-save: prefs = defaultPrefs(), overwritten by every
\* checkbox of this modal, then applyConsent(prefs); close()
ModalSave ==
  /\ CanApply
  /\ \E i \in 1 .. Len(modals) :
       /\ \E c \in Checked(modals[i]) :
            applyConsent("save", ObjectAssign(defaultPrefs(CATEGORIES), c))
       /\ closeAfterApply(i)

\* consent.js:351  #cc-modal-accept: acceptAll(); close()
ModalAccept ==
  /\ CanApply
  /\ \E i \in 1 .. Len(modals) :
       /\ acceptAll("acceptAll")
       /\ closeAfterApply(i)

\* consent.js:352  #cc-modal-decline: rejectAll(); close()
ModalDecline ==
  /\ CanApply
  /\ \E i \in 1 .. Len(modals) :
       /\ rejectAll("rejectAll")
       /\ closeAfterApply(i)

\* consent.js:340  a click on the overlay outside the modal: close()
OverlayClick ==
  /\ ~Leaving
  /\ \E i \in 1 .. Len(modals) : close(i)
  /\ UNCHANGED <<consent, CATEGORIES, COOKIE_MAP, CONSENT_VERSION,
                 localStorage, cookie, siteData, scripts, made, readyState,
                 listeners, session, inited, nops, installs, ended, bumps,
                 last>>

\* A dispatch that runs its listeners on the engine as it was before the
\* call of applyConsent.
beforeCall(before, atDispatch) == before

\* consent.js:143-148  dispatchEvent is the last statement of applyConsent
\* and runs the listeners before it returns: what a listener finds is the
\* engine as lines 143-147 left it.
duringDispatch(before, atDispatch) == atDispatch

\* The page has a cc:consent listener that, on the event of a click in the
\* banner or a modal, clicks Accept all or Decline all there itself: that
\* handler's applyConsent(B) runs inside the dispatchEvent (consent.js:148)
\* of the user's applyConsent(A), and the dismiss() or close() of both
\* handlers follow, on the same element.
ReentrantApply ==
  /\ CanApply /\ nops + 1 < MaxOps
  /\ ~cookieThrows(siteData)
  /\ \E A \in {allTrue(CATEGORIES), defaultPrefs(CATEGORIES)} :
     \E B \in {allTrue(CATEGORIES), defaultPrefs(CATEGORIES)} :
       LET r1 == applyBody(Engine, A)
           s1 == duringDispatch(Engine,
                   [consent |-> r1.consent, scripts |-> r1.scripts,
                    made |-> r1.made, ls |-> r1.ls, ck |-> r1.ck])
           r2 == applyBody(s1, B)
       IN  /\ consent' = r2.consent
           /\ scripts' = r2.scripts
           /\ made' = r2.made
           /\ localStorage' = r2.ls
           /\ cookie' = r2.ck
           /\ nops' = nops + 2
           /\ installs' = [installs EXCEPT
                            !.applied = @ + 2,
                            !.granted = @ \cup TrueKeys(A) \cup TrueKeys(B)]
           /\ last' = [Nothing("reentrant") EXCEPT
                         !.prefs = B,
                         !.old = s1.consent,
                         !.inert = {d \in Decls : s1.scripts[d] = "inert"},
                         !.converted = r2.converted,
                         !.purged = r2.purged,
                         !.events = dispatchEvent(<<>>, B),
                         !.outcome = r2.outcome,
                         !.ls0 = s1.ls,
                         !.ck0 = s1.ck,
                         !.arg = B,
                         !.outer = [prefs |-> A, old |-> consent,
                                    events |-> dispatchEvent(<<>>, A)]]
  /\ \/ BannerUp /\ dismissAfterApply
     \/ \E i \in 1 .. Len(modals) : closeAfterApply(i)
  /\ UNCHANGED <<CATEGORIES, COOKIE_MAP, CONSENT_VERSION, siteData,
                 readyState, listeners, session, inited, ended, bumps>>

\* consent.js:390  try { localStorage.removeItem(STORAGE_KEY) } catch (_) {}:
\* the primary entry afterwards.
removeItem(ls, mode) == IF getItemThrows(mode) THEN ls ELSE NoEntry

\* An expiring assignment that the browser never receives.
keepCookie(ck, mode) == ck

\* consent.js:391-392  document.cookie = STORAGE_KEY=;expires=<past>;path=/
\* (the path save wrote the cookie with): the fallback entry afterwards.
expireCookie(ck, mode) ==
  IF cookiesOff(mode) \/ cookieThrows(mode) THEN ck ELSE NoEntry

\* consent.js:389-394  reset(): removeItem (a throw is caught), the expiring
\* cookie assignment with path=/, location.reload().  The page load that
\* follows is the action Reload.  When the cookie assignment throws, reset
\* ends there and location.reload() is not called.
reset ==
  /\ inited /\ ~Leaving
  /\ nops < MaxOps
  /\ nops' = nops + 1
  /\ localStorage' = removeItem(localStorage, siteData)
  /\ cookie' = expireCookie(cookie, siteData)
  /\ last' = [Nothing("reset") EXCEPT !.raised = cookieThrows(siteData)]
  /\ UNCHANGED <<consent, CATEGORIES, COOKIE_MAP, CONSENT_VERSION, siteData,
                 scripts, made, readyState, listeners, banners, modals,
                 session, inited, installs, ended, bumps>>

(* ------------------------------------------------------------------ *)
(* Specification                                                       *)
(* ------------------------------------------------------------------ *)

Next ==
  \/ Parse
  \/ DOMContentLoaded
  \/ Reload
  \/ AutoInit
  \/ ManualInit
  \/ BannerAccept
  \/ BannerReject
  \/ BannerManage
  \/ openPreferences
  \/ ModalSave
  \/ ModalAccept
  \/ ModalDecline
  \/ OverlayClick
  \/ ReentrantApply
  \/ reset

Spec == Init /\ [][Next]_vars

\* The same script where a page load may be a sandboxed document.
NextSandboxed ==
  \/ Next
  \/ LoadSandboxed

SpecSandboxed == InitSandboxed /\ [][NextSandboxed]_vars

(* ------------------------------------------------------------------ *)
(* Claims                                                              *)
(* ------------------------------------------------------------------ *)

\* The last call was one of applyConsent.
Applied == last.prefs /= Null

\* The last call was one of init, and load gave it no record / a record.
InitFresh == last.op \in {"autoinit", "init"} /\ last.loaded = Null

InitStored == last.op \in {"autoinit", "init"} /\ last.loaded /= Null

\* Every category the registry marks required is true in the record.
RequiredTrue(prefs) ==
  \A k \in DOMAIN CATEGORIES : CATEGORIES[k].required => Truthy(prefs, k)

\* The declarations a call found inert whose category is true in prefs.
InertAllowed(prefs) ==
  {d \in last.inert : Truthy(prefs, DeclCategory(d))}

\* C1: every record produced by defaultPrefs() or installed as current by
\* applyConsent (called by acceptAll, rejectAll or the modal's save handler)
\* has value true for every category the registry marks required.
C1_RequiredAlwaysTrue ==
  /\ RequiredTrue(defaultPrefs(CATEGORIES))
  /\ Applied => RequiredTrue(consent)

\* C2: hasConsent(key) is false for every key, required ones included, as
\* long as no record was made current in the session, and is the boolean
\* the record holds for key once applyConsent or init (from storage) has
\* made one current.
C2_HasConsent ==
  \A k \in Keys \cup {"unknown"} :
    /\ (installs.applied = 0 /\ installs.loaded = 0) => ~hasConsent(k)
    /\ Applied => (hasConsent(k) <=> Truthy(last.prefs, k))
    /\ InitStored => (hasConsent(k) <=> Truthy(last.loaded, k))

\* C2 witness: init has run without a stored record, the necessary
\* declaration is active and hasConsent('necessary') is false.
C2_Witness ==
  /\ InitFresh
  /\ installs.applied = 0 /\ installs.loaded = 0
  /\ \E d \in Decls : DeclCategory(d) = "necessary" /\ scripts[d] = "active"
  /\ ~hasConsent("necessary")

\* C3: init, when load gives it no record, converts the declarations tagged
\* necessary and no other, leaves the engine Undecided (hasConsent of
\* analytics is false) and shows the banner at once when the document is
\* ready, or else registers it for DOMContentLoaded.
C3_InitWithoutRecord ==
  InitFresh =>
    /\ last.converted = {d \in last.inert : DeclCategory(d) = "necessary"}
    /\ consent = Null
    /\ ~hasConsent("analytics")
    /\ last.prompt \in {"shown", "deferred"}

\* C4: one call applyConsent(prefs) converts exactly the declarations that
\* were inert and whose category is true in prefs; none whose category is
\* false in prefs or is no key of prefs.
C4_ActivatesExactlyAllowed ==
  Applied => last.converted = InertAllowed(last.prefs)

\* C4 witness: an applyConsent converted a declaration and left inert one
\* whose category is false in the record and one whose category is no key
\* of it.
C4_Witness ==
  /\ Applied
  /\ last.converted /= {}
  /\ \E d \in last.inert :
       DeclCategory(d) \in DOMAIN last.prefs /\ ~last.prefs[DeclCategory(d)]
  /\ \E d \in last.inert : DeclCategory(d) \notin DOMAIN last.prefs

\* C5: a declaration is replaced by an active script at most once: an active
\* one was converted exactly once, any other never, and a call converts only
\* declarations that were inert, so a repeated activation of a category
\* creates nothing.
C5_ActivatedOnce ==
  /\ \A d \in Decls : made[d] = (IF scripts[d] = "active" THEN 1 ELSE 0)
  /\ last.converted \subseteq last.inert

\* C5 witness: applyConsent ran with analytics true when analytics was true
\* already and its declaration active already; nothing was converted.
C5_Witness ==
  /\ Applied
  /\ Truthy(last.old, "analytics") /\ Truthy(last.prefs, "analytics")
  /\ \E d \in Decls :
       /\ DeclCategory(d) = "analytics"
       /\ scripts[d] = "active" /\ d \notin last.inert /\ made[d] = 1
  /\ last.converted = {}

\* C6: load() after save(prefs) returns prefs, whatever the backends held
\* before and whether setItem stored the payload or the cookie did.
C6_RoundTrip ==
  (Applied /\ last.outcome \in {"primary", "fallback"}) =>
    load(localStorage, cookie, CONSENT_VERSION, siteData) = last.prefs

\* The payload a backend entry holds, if it holds one.
IsPayload(text) == text.kind = "json"

CookieText == IF cookie = NoEntry THEN NoEntry ELSE decodeURIComponent(cookie)

\* A backend holds a payload, and every payload held carries another version
\* than the compiled one.
StaleOnly ==
  /\ IsPayload(localStorage) \/ IsPayload(CookieText)
  /\ IsPayload(localStorage) => localStorage.version /= CONSENT_VERSION
  /\ IsPayload(CookieText) => CookieText.version /= CONSENT_VERSION

\* C7: when every stored payload carries another version than the compiled
\* one and nothing was saved in this session, init gets no record from load,
\* leaves both backends as they were (the payload stays, unmigrated) and
\* does what it does in a fresh session: converts the necessary
\* declarations only, stays Undecided, signals the banner.
C7_StaleVersionIgnored ==
  (last.op \in {"autoinit", "init"} /\ installs.applied = 0 /\ StaleOnly) =>
    /\ last.loaded = Null
    /\ localStorage = last.ls0 /\ cookie = last.ck0
    /\ last.converted = {d \in last.inert : DeclCategory(d) = "necessary"}
    /\ consent = Null
    /\ last.prompt \in {"shown", "deferred"}

\* C7 witness: the previous session ended with an applyConsent under an
\* older version, the payload it wrote is still in localStorage, and the
\* script's init of this session got no record.
C7_Witness ==
  /\ last.op = "autoinit"
  /\ ended.applied /\ ended.version < CONSENT_VERSION
  /\ localStorage = JSONstringify(ended.version, ended.prefs)
  /\ StaleOnly
  /\ last.loaded = Null /\ consent = Null

\* The elements of a sequence.
Range(seq) == {seq[i] : i \in 1 .. Len(seq)}

\* Deletions at all three scope variants were issued for every cookie name
\* the cookie map lists for the key.
PurgedAllOf(k) ==
  k \in DOMAIN COOKIE_MAP =>
    \A n \in Range(COOKIE_MAP[k]), t \in Range(Tails) :
      <<n, t>> \in Range(last.purged)

\* C8 as claimed: applyConsent purges every key that is true in the old
\* current record and not true in the new one, and the key is then false.
C8_PurgesEveryRevokedKey ==
  Applied =>
    \A k \in DOMAIN last.old :
      (Truthy(last.old, k) /\ ~Truthy(last.prefs, k)) =>
        PurgedAllOf(k) /\ ~hasConsent(k)

\* C8, amended: applyConsent purges every key of the registry that is true
\* in the old current record and not true in the new one: for each cookie
\* name the cookie map lists for it, a deletion at each of the three scope
\* variants; afterwards the key is false in the current record.
C8_PurgesRevokedRegistryKeys ==
  Applied =>
    \A k \in DOMAIN CATEGORIES :
      (Truthy(last.old, k) /\ ~Truthy(last.prefs, k)) =>
        PurgedAllOf(k) /\ ~hasConsent(k)

\* C8 witness: marketing was true, the cookie map lists a and b for it, and
\* an applyConsent with marketing false issued the six deletions.
C8_Witness ==
  /\ Applied
  /\ Truthy(last.old, "marketing") /\ ~Truthy(last.prefs, "marketing")
  /\ COOKIE_MAP["marketing"] = <<"a", "b">>
  /\ \A n \in {"a", "b"}, t \in Range(Tails) : <<n, t>> \in Range(last.purged)
  /\ ~hasConsent("marketing")

\* The payload the last applyConsent handed to its backend.
Written ==
  CASE last.outcome = "primary" -> localStorage
    [] last.outcome = "fallback" -> CookieText
    [] OTHER -> NoEntry

\* C9: every applyConsent dispatches exactly one cc:consent event, whose
\* detail is the whole new record, and the payload it stores carries the
\* compiled version; init dispatches none.
C9_OneNotification ==
  /\ Applied =>
       /\ last.events = <<last.prefs>>
       /\ last.outcome /= "lost" =>
            /\ IsPayload(Written)
            /\ Written.version = CONSENT_VERSION
            /\ Written.prefs = last.prefs
  /\ last.op \in {"autoinit", "init"} => last.events = <<>>

\* The record of the spec's scenario.
ScenarioPrefs ==
  [k \in BuiltinKeys |-> (k \in {"necessary", "analytics"})]

\* C9 witness: the modal's save applied the scenario's record, one event
\* carried it and localStorage holds it under the compiled version.
C9_Witness ==
  /\ Applied
  /\ last.prefs = ScenarioPrefs
  /\ last.events = <<ScenarioPrefs>>
  /\ localStorage = JSONstringify(CONSENT_VERSION, ScenarioPrefs)

\* C10: when the previous session ended after applyConsent(R) and the
\* compiled version is the same, the script's init makes R current, converts
\* the declarations of the categories true in R and no other, and shows no
\* banner.  Stated for the sessions in which the save reached a backend and
\* this session can read both backends.
C10_CrossSession ==
  ( /\ last.op = "autoinit"
    /\ ended.applied
    /\ ended.version = CONSENT_VERSION
    /\ ended.outcome /= "lost"
    /\ ~getItemThrows(siteData) /\ ~cookiesOff(siteData) ) =>
    /\ consent = ended.prefs
    /\ last.converted = InertAllowed(ended.prefs)
    /\ last.prompt = "none"

\* init did what it does in a session without a stored record.
AsFreshSession ==
  /\ last.loaded = Null
  /\ last.converted = {d \in last.inert : DeclCategory(d) = "necessary"}
  /\ consent = Null
  /\ last.prompt \in {"shown", "deferred"}

\* C11 as claimed: after reset() neither backend holds an entry under
\* STORAGE_KEY.
C11_ResetClearsBoth ==
  last.op = "reset" => (localStorage = NoEntry /\ cookie = NoEntry)

\* C11, amended: after reset() every backend the browser lets the page
\* reach holds no entry under STORAGE_KEY, whichever backend the last save
\* wrote to; when both can be reached, load() then returns no record and
\* the script's init of the next session does what it does in a fresh
\* session.
C11_ResetClearsReachable ==
  /\ last.op = "reset" =>
       /\ ~getItemThrows(siteData) => localStorage = NoEntry
       /\ ~cookiesOff(siteData) => cookie = NoEntry
       /\ (~getItemThrows(siteData) /\ ~cookiesOff(siteData)) =>
            load(localStorage, cookie, CONSENT_VERSION, siteData) = Null
  /\ ( /\ last.op = "autoinit"
       /\ ended.by = "reset"
       /\ ~getItemThrows(ended.mode) /\ ~cookiesOff(ended.mode) ) =>
       AsFreshSession

\* C11 witness: the last save went to the cookie while localStorage held an
\* older payload; reset found both and left neither.
C11_Witness ==
  /\ last.op = "reset"
  /\ siteData = "quota"
  /\ IsPayload(last.ls0)
  /\ last.ck0 /= NoEntry /\ IsPayload(decodeURIComponent(last.ck0))
  /\ localStorage = NoEntry /\ cookie = NoEntry

\* C12: once reset() has executed the engine holds no current record and
\* hasConsent(key) is false for every key, before and without any reload of
\* the page.
C12_ResetForgetsRecord ==
  last.op = "reset" =>
    /\ consent = Null
    /\ \A k \in Keys \cup {"unknown"} : ~hasConsent(k)

\* The last call was one of applyConsent, whether or not it returned.
CalledApply == last.op \in {"acceptAll", "rejectAll", "save"}

\* C13: a storage failure never surfaces.  applyConsent raises nothing: when
\* setItem throws and the browser takes the cookie, the cookie holds the
\* payload; and whatever the two backends do, the call completes: the record
\* it was called with is current, the inert declarations of its true
\* categories are converted and one cc:consent event carries it.
C13_StorageFailureSilent ==
  CalledApply =>
    /\ ~last.raised
    /\ consent = last.arg
    /\ last.converted = InertAllowed(last.arg)
    /\ last.events = <<last.arg>>
    /\ last.outcome = "fallback" =>
         CookieText = JSONstringify(CONSENT_VERSION, last.arg)

\* C14: when a cc:consent listener of applyConsent(A) calls applyConsent(B)
\* synchronously, the inner call finds A as the current record and computes
\* its deletions against A, and when both calls have returned the current
\* record and the stored payload are B.
C14_ReentrantLastWins ==
  last.op = "reentrant" =>
    /\ last.old = last.outer.prefs
    /\ last.purged =
         Revoke(last.outer.prefs, last.prefs, CATEGORIES, COOKIE_MAP)
    /\ consent = last.prefs
    /\ last.outcome /= "lost" =>
         Written = JSONstringify(CONSENT_VERSION, last.prefs)

\* C14 witness: the user accepted all from a record with analytics not
\* true, the listener declined all; the inner call purged analytics, the
\* default record is current and stored.
C14_Witness ==
  /\ last.op = "reentrant"
  /\ ~Truthy(last.outer.old, "analytics")
  /\ Truthy(last.outer.prefs, "analytics")
  /\ ~Truthy(last.prefs, "analytics")
  /\ <<"_ga", Tails[1]>> \in Range(last.purged)
  /\ consent = last.prefs
  /\ localStorage = JSONstringify(CONSENT_VERSION, last.prefs)

\* The last call was one of init.
CalledInit == last.op \in {"autoinit", "init"}

\* What the call found in the cookie, decoded.
CookieText0 ==
  IF last.ck0 = NoEntry THEN NoEntry ELSE decodeURIComponent(last.ck0)

\* The call could read localStorage and found a payload there / a payload
\* of the compiled version.
PrimaryPayload0 == ~getItemThrows(siteData) /\ IsPayload(last.ls0)

PrimaryCurrent0 == PrimaryPayload0 /\ last.ls0.version = CONSENT_VERSION

\* The call could read the cookie and found a payload of the compiled
\* version there.
CookieCurrent0 ==
  /\ ~cookiesOff(siteData)
  /\ IsPayload(CookieText0)
  /\ CookieText0.version = CONSENT_VERSION

\* C15 as claimed: load() reads the cookie only when localStorage has no
\* entry, cannot be read or holds an entry that fails to parse: a parseable
\* entry in localStorage decides the result alone.
C15_FallbackOnlyOnMiss ==
  (CalledInit /\ PrimaryPayload0) =>
    last.loaded = (IF PrimaryCurrent0 THEN last.ls0.prefs ELSE Null)

\* C15, amended: load() consults localStorage first and returns its prefs
\* when it holds a payload of the compiled version; in every other case (no
\* entry, access throws, parse failure, another version) it reads the cookie
\* and returns its prefs when that is a payload of the compiled version;
\* otherwise it returns no record.  Nothing is raised; a corrupt entry in
\* either backend counts as no record.
C15_LoadOrder ==
  CalledInit =>
    /\ ~last.raised
    /\ PrimaryCurrent0 => last.loaded = last.ls0.prefs
    /\ (~PrimaryCurrent0 /\ CookieCurrent0) => last.loaded = CookieText0.prefs
    /\ (~PrimaryCurrent0 /\ ~CookieCurrent0) => last.loaded = Null

\* C15 witness: localStorage held an entry that does not parse, the cookie a
\* payload of the compiled version, and init got the cookie's record.
C15_Witness ==
  /\ CalledInit
  /\ ~getItemThrows(siteData)
  /\ last.ls0 = Garbage
  /\ CookieCurrent0
  /\ last.loaded = CookieText0.prefs
  /\ ~last.raised

\* The keys that are not in the registry.
UnknownKeys == (Keys \cup {"unknown"}) \ DOMAIN CATEGORIES

\* The cookie names the cookie map lists for the key.
NamesOf(k) == IF k \in DOMAIN COOKIE_MAP THEN Range(COOKIE_MAP[k]) ELSE {}

\* C16: a record that init loads is made current as it is, keys outside the
\* registry included, with the values it holds and without a write to
\* either backend; when applyConsent replaces a record in which such a key
\* is true by one in which it is not, no deletion is issued for the names
\* the cookie map lists for the key; and deleteCookies of a key without a
\* cookie-map entry issues nothing.
C16_UnknownKeysUntouched ==
  /\ InitStored =>
       /\ consent = last.loaded
       /\ localStorage = last.ls0 /\ cookie = last.ck0
  /\ Applied =>
       \A k \in UnknownKeys :
         (Truthy(last.old, k) /\ ~Truthy(last.prefs, k)) =>
           \A n \in NamesOf(k), t \in Range(Tails) :
             <<n, t>> \notin Range(last.purged)
  /\ \A k \in Keys \cup {"unknown"} :
       k \notin DOMAIN COOKIE_MAP => deleteCookies(COOKIE_MAP, k) = <<>>

\* C16 witness: the loaded record had custom true, custom is no key of the
\* registry, the cookie map lists c1 for it, and an applyConsent without
\* custom issued deletions, none of them for c1.
C16_Witness ==
  /\ Applied
  /\ "custom" \in UnknownKeys
  /\ Truthy(last.old, "custom") /\ ~Truthy(last.prefs, "custom")
  /\ NamesOf("custom") = {"c1"}
  /\ last.purged /= <<>>
  /\ \A t \in Range(Tails) : <<"c1", t>> \notin Range(last.purged)
  /\ ~hasConsent("custom")

\* C17: acceptAll() applies the record that maps every key of the registry,
\* built-in or configured, to true; rejectAll() applies defaultPrefs(): the
\* current record then has every required category true and every other
\* category at its configured default, and for every category that was true
\* before and is not now, the deletions of its cookie names were issued.
C17_AcceptAllRejectAll ==
  /\ last.op = "acceptAll" =>
       /\ last.arg = [k \in DOMAIN CATEGORIES |-> TRUE]
       /\ consent = last.arg
  /\ last.op = "rejectAll" =>
       /\ DOMAIN last.arg = DOMAIN CATEGORIES
       /\ \A k \in DOMAIN CATEGORIES :
            last.arg[k] = (CATEGORIES[k].required \/ CATEGORIES[k].default)
       /\ consent = last.arg
       /\ \A k \in DOMAIN CATEGORIES :
            (Truthy(last.old, k) /\ ~consent[k]) => PurgedAllOf(k)

\* C17 witness: rejectAll() with a configured required category and a
\* configured default of true, from a record with marketing true: custom
\* and preferences are true, analytics is false, marketing was purged.
C17_Witness ==
  /\ last.op = "rejectAll"
  /\ "custom" \in DOMAIN CATEGORIES
  /\ consent["custom"] /\ consent["preferences"] /\ ~consent["analytics"]
  /\ Truthy(last.old, "marketing") /\ ~consent["marketing"]
  /\ <<"_fbp", Tails[3]>> \in Range(last.purged)

\* C18: a declaration whose category is not necessary is active only if a
\* record with that category true was made current in this session, by
\* applyConsent or by init from storage; and init without a stored record
\* converts no declaration of another category than necessary, not even of
\* a configured category marked required.
C18_NoActivationWithoutConsent ==
  /\ \A d \in Decls :
       (scripts[d] = "active" /\ DeclCategory(d) /= "necessary") =>
         DeclCategory(d) \in installs.granted
  /\ (CalledInit /\ last.loaded = Null) =>
       \A d \in last.converted : DeclCategory(d) = "necessary"

\* C18 witness: init ran without a stored record while custom is a
\* configured required category with an inert declaration; that declaration
\* is still inert and the necessary one is active.
C18_Witness ==
  /\ CalledInit /\ last.loaded = Null
  /\ "custom" \in DOMAIN CATEGORIES /\ CATEGORIES["custom"].required
  /\ \E d \in last.inert : DeclCategory(d) = "custom" /\ scripts[d] = "inert"
  /\ \E d \in Decls : DeclCategory(d) = "necessary" /\ scripts[d] = "active"
  /\ installs.granted = {}

\* C19: within a session no step makes an active declaration inert again or
\* removes it: the set of active declarations never shrinks, whatever
\* applyConsent revokes.
C19_ActivationIrreversible ==
  [][session' = session =>
       \A d \in Decls : scripts[d] = "active" => scripts'[d] = "active"]_vars

\* C19 witness: applyConsent revoked analytics, issued the deletions of its
\* cookies, hasConsent('analytics') is false and the analytics declaration
\* activated before is still active.
C19_Witness ==
  /\ Applied
  /\ Truthy(last.old, "analytics") /\ ~hasConsent("analytics")
  /\ <<"_ga", Tails[1]>> \in Range(last.purged)
  /\ \E d \in Decls :
       DeclCategory(d) = "analytics" /\ scripts[d] = "active"
                                     /\ d \notin last.inert

\* C20: a deletion of a category's cookie is issued only by applyConsent and
\* only for a name the cookie map lists for a key of the registry that was
\* true in the record current before the call and is not true in the new
\* one; applyConsent without a current record issues none; init, with or
\* without a stored record, issues none and leaves both backends as they
\* were.
C20_PurgeOnlyOnRevocation ==
  /\ \A i \in 1 .. Len(last.purged) :
       /\ Applied
       /\ \E k \in DOMAIN CATEGORIES :
            /\ Truthy(last.old, k) /\ ~Truthy(last.prefs, k)
            /\ last.purged[i][1] \in NamesOf(k)
  /\ (Applied /\ last.old = Null) => last.purged = <<>>
  /\ CalledInit =>
       /\ last.purged = <<>>
       /\ localStorage = last.ls0 /\ cookie = last.ck0

\* C20 witness: applyConsent made the default record current when there was
\* none: analytics is not true in it and no deletion was issued.
C20_Witness ==
  /\ Applied
  /\ last.old = Null
  /\ ~Truthy(last.prefs, "analytics")
  /\ last.purged = <<>>
  /\ consent = last.prefs

====
